---- MODULE Spec2Model ----
(***************************************************************************)
(* Model of orchestrator/cpp/crypto.cpp: crypto_init and encrypt_secret,   *)
(* the sealed-box encryption of a secret for a base64 public key into a    *)
(* caller-owned buffer with size-in/size-out negotiation.                  *)
(*                                                                         *)
(* Characters are one-character strings, bytes are 0..255.  The libsodium  *)
(* primitives that encrypt_secret calls are modelled by what they do:      *)
(* the base64 codec bit by bit, the sealed box as an abstract              *)
(* Diffie-Hellman construction (ephemeral key, tag, masked plaintext).     *)
(***************************************************************************)
EXTENDS Integers, Sequences, FiniteSets, TLC

(***************************************************************************)
(* Bounds of the model.                                                    *)
(***************************************************************************)
\* longest plaintext the caller passes
MaxPlainLen == 3
\* calls one caller makes in a row with the same arguments and length cell
MaxCalls == 3
\* threads calling encrypt_secret concurrently
NThreads == 2

(***************************************************************************)
(* Constants of libsodium used by crypto.cpp.                              *)
(***************************************************************************)
crypto_box_PUBLICKEYBYTES == 32
crypto_box_MACBYTES == 16
crypto_box_SEALBYTES == crypto_box_PUBLICKEYBYTES + crypto_box_MACBYTES

\* the string terminator and the content of a cell nobody wrote yet
NUL == "NUL"
Untouched == "?"

B64Chars ==
  << "A","B","C","D","E","F","G","H","I","J","K","L","M","N","O","P",
     "Q","R","S","T","U","V","W","X","Y","Z","a","b","c","d","e","f",
     "g","h","i","j","k","l","m","n","o","p","q","r","s","t","u","v",
     "w","x","y","z","0","1","2","3","4","5","6","7","8","9","+","/" >>

Pow2(n) == IF n = 0 THEN 1 ELSE 2 ^ n

\* b64_char_to_byte: 0..63 for a character of the alphabet, 0xFF otherwise
B64Index ==
  [c \in {B64Chars[i] : i \in 1..64} |-> (CHOOSE i \in 1..64 : B64Chars[i] = c) - 1]

b64_char_to_byte(c) == IF c \in DOMAIN B64Index THEN B64Index[c] ELSE 255

b64_byte_to_char(x) == B64Chars[x + 1]

\* strlen of a character buffer: the cells before the first terminator
strlen(buf) ==
  IF \E i \in 1..Len(buf) : buf[i] = NUL
  THEN (CHOOSE i \in 1..Len(buf) : buf[i] = NUL /\ \A j \in 1..(i-1) : buf[j] # NUL) - 1
  ELSE Len(buf)

(***************************************************************************)
(* sodium_base642bin, variant ORIGINAL, ignore = NULL, b64_end = NULL.     *)
(* The decoding loop is b642bin_loop; st is the loop's state.  Only the    *)
(* low acc_len (< 14) bits of acc are ever read, so acc is kept to 24 bits.*)
(***************************************************************************)
RECURSIVE b642bin_loop(_, _, _)
b642bin_loop(b64, bin_maxlen, st) ==
  IF st.b64_pos >= Len(b64) THEN st
  ELSE
    LET d == b64_char_to_byte(b64[st.b64_pos + 1]) IN
    IF d = 255 THEN st
    ELSE
      LET acc  == (st.acc * 64 + d) % Pow2(24)
          alen == st.acc_len + 6
      IN  IF alen >= 8
          THEN IF st.bin_pos >= bin_maxlen
               THEN [st EXCEPT !.acc = acc, !.acc_len = alen - 8, !.ret = -1]
               ELSE b642bin_loop(b64, bin_maxlen,
                      [st EXCEPT !.acc = acc, !.acc_len = alen - 8,
                                 !.bin = [@ EXCEPT ![st.bin_pos + 1] =
                                            (acc \div Pow2(alen - 8)) % 256],
                                 !.bin_pos = @ + 1,
                                 !.b64_pos = @ + 1])
          ELSE b642bin_loop(b64, bin_maxlen,
                      [st EXCEPT !.acc = acc, !.acc_len = alen, !.b64_pos = @ + 1])

\* _sodium_base642bin_skip_padding: [ret, b64_pos] after eating padding_len '='
RECURSIVE skip_padding(_, _, _)
skip_padding(b64, b64_pos, padding_len) ==
  IF padding_len = 0 THEN [ret |-> 0, b64_pos |-> b64_pos]
  ELSE IF b64_pos >= Len(b64) THEN [ret |-> -1, b64_pos |-> b64_pos]
  ELSE IF b64[b64_pos + 1] = "=" THEN skip_padding(b64, b64_pos + 1, padding_len - 1)
  ELSE [ret |-> -1, b64_pos |-> b64_pos]

\* [ret, bin_len, bin]: bin is the destination after the call (it is written
\* byte by byte, also when the call fails later)
sodium_base642bin(bin0, bin_maxlen, b64) ==
  LET st  == b642bin_loop(b64, bin_maxlen,
               [b64_pos |-> 0, bin_pos |-> 0, acc |-> 0, acc_len |-> 0,
                ret |-> 0, bin |-> bin0])
      bad == st.acc_len > 4 \/ (st.acc % Pow2(st.acc_len)) # 0
      pad == IF ~bad /\ st.ret = 0
             THEN skip_padding(b64, st.b64_pos, st.acc_len \div 2)
             ELSE [ret |-> st.ret, b64_pos |-> st.b64_pos]
      ret == IF bad THEN -1
             ELSE IF pad.ret # 0 THEN -1
             ELSE IF pad.b64_pos # Len(b64) THEN -1
             ELSE 0
  IN  [ret |-> ret, bin_len |-> IF ret = 0 THEN st.bin_pos ELSE 0, bin |-> st.bin]

(***************************************************************************)
(* sodium_base64_ENCODED_LEN and sodium_bin2base64, variant ORIGINAL.      *)
(***************************************************************************)
\* the macro: characters of the padded text plus one for the terminator
sodium_base64_ENCODED_LEN(bin_len) ==
  (bin_len \div 3) * 4 + (IF bin_len % 3 # 0 THEN 4 ELSE 0) + 1

\* the characters that encode bin, padded with '='
RECURSIVE b64_text(_)
b64_text(bin) ==
  IF Len(bin) = 0 THEN << >>
  ELSE IF Len(bin) = 1 THEN
    << b64_byte_to_char(bin[1] \div 4), b64_byte_to_char((bin[1] % 4) * 16), "=", "=" >>
  ELSE IF Len(bin) = 2 THEN
    << b64_byte_to_char(bin[1] \div 4),
       b64_byte_to_char((bin[1] % 4) * 16 + bin[2] \div 16),
       b64_byte_to_char((bin[2] % 16) * 4), "=" >>
  ELSE
    << b64_byte_to_char(bin[1] \div 4),
       b64_byte_to_char((bin[1] % 4) * 16 + bin[2] \div 16),
       b64_byte_to_char((bin[2] % 16) * 4 + bin[3] \div 64),
       b64_byte_to_char(bin[3] % 64) >>
    \o b64_text(SubSeq(bin, 4, Len(bin)))

\* [aborted, null, b64]: b64 is the destination after the call, null says
\* that the returned pointer is NULL (it never is).  The text is written from
\* the first cell on and every further cell below b64_maxlen is set to NUL;
\* b64_maxlen <= length of the text is sodium_misuse() (the process aborts).
sodium_bin2base64(b64, b64_maxlen, bin) ==
  LET text == b64_text(bin) IN
  IF b64_maxlen <= Len(text)
  THEN [aborted |-> TRUE, null |-> FALSE, b64 |-> b64]
  ELSE [aborted |-> FALSE, null |-> FALSE,
        b64 |-> [i \in 1..Len(b64) |->
                   IF i <= Len(text) THEN text[i]
                   ELSE IF i <= b64_maxlen THEN NUL
                   ELSE b64[i]]]

(***************************************************************************)
(* The sealed box (crypto_box_seal, and the reference crypto_box_seal_open *)
(* that the recipient runs).  Curve25519 is modelled as exponentiation     *)
(* modulo GroupOrder: scalarmult(a, base(b)) = scalarmult(b, base(a)) for  *)
(* keys made by crypto_scalarmult_base, a point of value 0 is the          *)
(* small-order point for which the primitive reports an error.             *)
(***************************************************************************)
GroupOrder == 251
Generator == 6

RECURSIVE SumBytes(_)
SumBytes(s) == IF Len(s) = 0 THEN 0 ELSE s[1] + SumBytes(Tail(s))

RECURSIVE ModExp(_, _)
ModExp(v, n) == IF n = 0 THEN 1 ELSE (v * ModExp(v, n - 1)) % GroupOrder

\* secret scalars of the recipients and of the ephemeral keys the RNG draws
RecipientSecrets == {3, 5}
EphemeralSecrets == {2, 7}
Scalars == RecipientSecrets \cup EphemeralSecrets

\* the public key of secret scalar n, as 32 bytes
crypto_scalarmult_base(n) ==
  [i \in 1..crypto_box_PUBLICKEYBYTES |-> (n * 37 + i * 11) % 256]

PointVal(P) ==
  IF \E n \in Scalars : P = crypto_scalarmult_base(n)
  THEN ModExp(Generator, CHOOSE n \in Scalars : P = crypto_scalarmult_base(n))
  ELSE SumBytes(P) % GroupOrder

\* the shared secret of scalar n and point P; 0 is the error of the primitive
crypto_scalarmult(n, P) == ModExp(PointVal(P), n)

\* _crypto_box_seal_nonce: a hash of both public keys
seal_nonce(epk, pk) == (SumBytes(epk) + 3 * SumBytes(pk)) % 256

StreamByte(k, nonce, i) == (k * 7 + nonce + 13 * i) % 256

BoxMac(k, nonce, body) ==
  [j \in 1..crypto_box_MACBYTES |->
     (k + 5 * nonce + j * (SumBytes(body) + 1) + Len(body)) % 256]

\* [ret, c]: c = ephemeral public key || tag || masked message
crypto_box_seal(m, pk, esk) ==
  LET epk   == crypto_scalarmult_base(esk)
      nonce == seal_nonce(epk, pk)
      k     == crypto_scalarmult(esk, pk)
      body  == [i \in 1..Len(m) |-> (m[i] + StreamByte(k, nonce, i)) % 256]
  IN  IF k = 0 THEN [ret |-> -1, c |-> << >>]
      ELSE [ret |-> 0, c |-> epk \o BoxMac(k, nonce, body) \o body]

\* [ret, m]: the recipient opens c with its secret scalar sk
crypto_box_seal_open(c, sk) ==
  IF Len(c) < crypto_box_SEALBYTES THEN [ret |-> -1, m |-> << >>]
  ELSE
    LET epk   == SubSeq(c, 1, crypto_box_PUBLICKEYBYTES)
        tag   == SubSeq(c, crypto_box_PUBLICKEYBYTES + 1, crypto_box_SEALBYTES)
        body  == SubSeq(c, crypto_box_SEALBYTES + 1, Len(c))
        nonce == seal_nonce(epk, crypto_scalarmult_base(sk))
        k     == crypto_scalarmult(sk, epk)
    IN  IF k = 0 \/ tag # BoxMac(k, nonce, body) THEN [ret |-> -1, m |-> << >>]
        ELSE [ret |-> 0,
              m |-> [i \in 1..Len(body) |-> (body[i] + 256 - StreamByte(k, nonce, i)) % 256]]

(***************************************************************************)
(* What the callers pass.                                                  *)
(***************************************************************************)
ArgNames == {"public_key_b64", "plaintext", "output", "output_len"}

\* key text of the specification's end-to-end scenario
ScenarioKey ==
  << "Z","m","9","v","Y","m","F","y","Z","m","9","v","Y","m","F","y",
     "Z","m","9","v","Y","m","F","y","Z","m","9","v","Y","m","F","y",
     "Z","m","9","v","Y","m","F","y","M","D","A","=" >>

ZeroKey == [i \in 1..crypto_box_PUBLICKEYBYTES |-> 0]

\* the key text of a recipient
KeyText(sk) == b64_text(crypto_scalarmult_base(sk))

ValidKeyTexts == {KeyText(sk) : sk \in RecipientSecrets}

\* texts that decode to fewer bytes than a key has
ShortKeyTexts ==
  { b64_text(SubSeq(crypto_scalarmult_base(3), 1, n)) : n \in {0, 30, 31} }

\* texts that decode to more bytes than a key has
LongKeyTexts ==
  { b64_text(crypto_scalarmult_base(3) \o [i \in 1..n |-> 7]) : n \in {1, 2} }

\* texts with a character outside the alphabet
BadCharKeyTexts ==
  { [KeyText(3) EXCEPT ![5] = "-"], [KeyText(5) EXCEPT ![44] = "!"] }

\* texts whose padding is missing, in excess, or whose last digit has stray bits
BadPaddingKeyTexts ==
  { SubSeq(KeyText(3), 1, 43), KeyText(3) \o << "=" >>,
    [KeyText(3) EXCEPT ![43] = b64_byte_to_char(b64_char_to_byte(KeyText(3)[43]) + 1)] }

KeyTexts ==
  ValidKeyTexts \cup {ScenarioKey, b64_text(ZeroKey)} \cup ShortKeyTexts
    \cup LongKeyTexts \cup BadCharKeyTexts \cup BadPaddingKeyTexts

\* plaintexts: C strings (no zero byte) of every length up to MaxPlainLen
Plaintexts ==
  { [i \in 1..n |-> 103 + i] : n \in 0..MaxPlainLen }
    \cup { [i \in 1..n |-> 256 - i] : n \in 1..MaxPlainLen }

MinRequired == sodium_base64_ENCODED_LEN(crypto_box_SEALBYTES)
MaxRequired == sodium_base64_ENCODED_LEN(crypto_box_SEALBYTES + MaxPlainLen)

\* capacities the callers declare, and the cells their buffers really have
Capacities == {0} \cup ((MinRequired - 2)..(MaxRequired + 1))
BufSize == MaxRequired + 2

NullChoices == {{}} \cup {{a} : a \in ArgNames} \cup {ArgNames}

(***************************************************************************)
(* State.                                                                  *)
(***************************************************************************)
VARIABLES
  initialized,  \* sodium_init has succeeded in this process
  init_ret,     \* what the last crypto_init returned (NoRet before it is called)
  args,         \* per thread: the key text, the plaintext, the arguments passed as null
  output,       \* per thread: the caller's buffer
  output_len,   \* per thread: the caller's length cell
  pc,           \* per thread: where the call is
  ret,          \* per thread: what the last call returned
  locals,       \* per stack frame: public_key, decoded_len, ciphertext, b64_len
  calls_left,   \* per thread: calls the caller will still make
  entry,        \* per thread: length cell and buffer when the current call began
  ran,          \* per thread: the stages the current call ran, in order
  sealed,       \* per thread: key, message and result of crypto_box_seal in the current call
  prev          \* per thread: return code, entry and exit length of the call before

vars == << initialized, init_ret, args, output, output_len, pc, ret, locals,
           calls_left, entry, ran, sealed, prev >>

Threads == 1..NThreads

\* a return code no function here returns
NoRet == 1

\* frame as it would be with function-static variables: one frame for all calls
frame_static(t) == 1

\* every call has its own automatic variables
frame(t) == t

NoLocals ==
  [public_key |-> << >>, decoded_len |-> 0, ciphertext |-> << >>, b64_len |-> 0]

NotSealed == [ran |-> FALSE, key |-> << >>, m |-> << >>, c |-> << >>, ret |-> NoRet]

NoCall == [ret |-> NoRet, entry_len |-> 0, exit_len |-> 0]

FreshBuffer == [i \in 1..BufSize |-> Untouched]

NotCalling ==
  [public_key_b64 |-> << >>, plaintext |-> << >>, null |-> {}]

(***************************************************************************)
(* crypto_init: sodium_init returns 0 when it has initialized the library, *)
(* -1 when it cannot.  It is called at startup, until it succeeds, before  *)
(* any call of encrypt_secret.                                             *)
(***************************************************************************)
crypto_init ==
  /\ ~initialized
  /\ \A t \in Threads : pc[t] = "idle"
  /\ \E ok \in BOOLEAN :
       /\ init_ret' = IF ok THEN 0 ELSE -1
       /\ initialized' = ok
  /\ UNCHANGED << args, output, output_len, pc, ret, locals, calls_left, entry, ran,
                  sealed, prev >>

(***************************************************************************)
(* The caller enters encrypt_secret: the first call, or a further call     *)
(* with the same arguments, buffer and length cell as they are now.        *)
(***************************************************************************)
Call(t) ==
  /\ initialized
  /\ pc[t] \in {"idle", "returned"}
  /\ args[t] # NotCalling
  /\ calls_left[t] > 0
  /\ pc' = [pc EXCEPT ![t] = "args"]
  /\ calls_left' = [calls_left EXCEPT ![t] = @ - 1]
  /\ prev' = [prev EXCEPT ![t] =
                IF pc[t] = "idle" THEN NoCall
                ELSE [ret |-> ret[t], entry_len |-> entry[t].len,
                      exit_len |-> output_len[t]]]
  /\ entry' = [entry EXCEPT ![t] = [len |-> output_len[t], out |-> output[t]]]
  /\ ran' = [ran EXCEPT ![t] = << >>]
  /\ sealed' = [sealed EXCEPT ![t] = NotSealed]
  /\ ret' = [ret EXCEPT ![t] = NoRet]
  /\ locals' = [locals EXCEPT ![frame(t)] = NoLocals]
  /\ UNCHANGED << initialized, init_ret, args, output, output_len >>

(***************************************************************************)
(* The four stages of encrypt_secret, as functions of what they read.      *)
(***************************************************************************)
\* check_args without the test of output_len
check_args_skips_len(null) ==
  IF \E a \in ArgNames \ {"output_len"} : a \in null THEN -1 ELSE 0

\* crypto.cpp 20-22: null is the set of arguments passed as null pointers
check_args(null) ==
  IF \E a \in ArgNames : a \in null THEN -1 ELSE 0

\* crypto.cpp 24-40: the vector is value-initialized (32 zero bytes), then
\* sodium_base642bin decodes into it; decoded_len is not looked at
decode_stage(public_key_b64) ==
  LET public_key_len == Len(public_key_b64)
      r == sodium_base642bin(ZeroKey, crypto_box_PUBLICKEYBYTES,
                             SubSeq(public_key_b64, 1, public_key_len))
  IN  [ret |-> IF r.ret # 0 THEN -2 ELSE 0,
       public_key |-> r.bin, decoded_len |-> r.bin_len]

\* seal_stage with a message length that is one short
seal_stage_one_short(plaintext, public_key, esk) ==
  LET plaintext_len  == Len(plaintext)
      ciphertext_len == crypto_box_SEALBYTES + plaintext_len
      m == SubSeq(plaintext, 1, plaintext_len - 1)
      r == crypto_box_seal(m, public_key, esk)
  IN  [ret |-> IF r.ret # 0 THEN -3 ELSE 0,
       m |-> m, sealret |-> r.ret,
       ciphertext |-> IF r.ret = 0 THEN r.c ELSE [i \in 1..ciphertext_len |-> 0]]

\* crypto.cpp 42-54: esk is the ephemeral secret the library's RNG draws
seal_stage(plaintext, public_key, esk) ==
  LET plaintext_len  == Len(plaintext)
      ciphertext_len == crypto_box_SEALBYTES + plaintext_len
      m == SubSeq(plaintext, 1, plaintext_len)
      r == crypto_box_seal(m, public_key, esk)
  IN  [ret |-> IF r.ret # 0 THEN -3 ELSE 0,
       m |-> m, sealret |-> r.ret,
       ciphertext |-> IF r.ret = 0 THEN r.c ELSE [i \in 1..ciphertext_len |-> 0]]

\* encode_stage variants: small(b64_len, cap) is the test for a buffer that is
\* too small, need(b64_len) the length reported for it, maxlen(b64_len, cap)
\* the size passed to sodium_bin2base64, early says that the encoder writes
\* before the test, done(buf) is the length reported on success
encode_variant(out, cap, ciphertext, small(_, _), need(_), maxlen(_, _), early, done(_)) ==
  LET ciphertext_len == Len(ciphertext)
      b64_len == sodium_base64_ENCODED_LEN(ciphertext_len)
      r == sodium_bin2base64(out, maxlen(b64_len, cap), ciphertext)
  IN  IF small(b64_len, cap)
      THEN [ret |-> -4, aborted |-> FALSE,
            output |-> IF early THEN r.b64 ELSE out, output_len |-> need(b64_len)]
      ELSE IF r.aborted
      THEN [ret |-> NoRet, aborted |-> TRUE, output |-> out, output_len |-> cap]
      ELSE IF r.null
      THEN [ret |-> -5, aborted |-> FALSE, output |-> r.b64, output_len |-> cap]
      ELSE [ret |-> 0, aborted |-> FALSE, output |-> r.b64, output_len |-> done(r.b64)]

\* the test b64_len >= *output_len instead of >
encode_stage_ge(out, cap, ciphertext) ==
  encode_variant(out, cap, ciphertext, LAMBDA b, c : b >= c, LAMBDA b : b,
                 LAMBDA b, c : c, FALSE, strlen)

\* the encoder called with the needed size before the capacity is tested
encode_stage_writes_first(out, cap, ciphertext) ==
  encode_variant(out, cap, ciphertext, LAMBDA b, c : b > c, LAMBDA b : b,
                 LAMBDA b, c : b, TRUE, strlen)

\* the encoder told that the buffer has BufSize cells
encode_stage_fixed_size(out, cap, ciphertext) ==
  encode_variant(out, cap, ciphertext, LAMBDA b, c : b > c, LAMBDA b : b,
                 LAMBDA b, c : BufSize, FALSE, strlen)

\* the length on success counted with the terminator
encode_stage_counts_nul(out, cap, ciphertext) ==
  encode_variant(out, cap, ciphertext, LAMBDA b, c : b > c, LAMBDA b : b,
                 LAMBDA b, c : c, FALSE, LAMBDA buf : strlen(buf) + 1)

\* the length needed reported without the terminator
encode_stage_need_text(out, cap, ciphertext) ==
  encode_variant(out, cap, ciphertext, LAMBDA b, c : b > c, LAMBDA b : b - 1,
                 LAMBDA b, c : c, FALSE, strlen)

\* crypto.cpp 56-77: out and cap are the caller's buffer and length cell
encode_stage(out, cap, ciphertext) ==
  LET ciphertext_len == Len(ciphertext)
      b64_len == sodium_base64_ENCODED_LEN(ciphertext_len)
      r == sodium_bin2base64(out, cap, ciphertext)
  IN  IF b64_len > cap
      THEN [ret |-> -4, aborted |-> FALSE, output |-> out, output_len |-> b64_len]
      ELSE IF r.aborted
      THEN [ret |-> NoRet, aborted |-> TRUE, output |-> out, output_len |-> cap]
      ELSE IF r.null
      THEN [ret |-> -5, aborted |-> FALSE, output |-> r.b64, output_len |-> cap]
      ELSE [ret |-> 0, aborted |-> FALSE, output |-> r.b64,
            output_len |-> strlen(r.b64)]

(***************************************************************************)
(* The steps of a call.                                                    *)
(***************************************************************************)
\* continue with stage s, or return r to the caller when r is not 0
Continue(t, r, s) ==
  IF r # 0
  THEN pc' = [pc EXCEPT ![t] = "returned"] /\ ret' = [ret EXCEPT ![t] = r]
  ELSE pc' = [pc EXCEPT ![t] = s] /\ UNCHANGED ret

CheckArgs(t) ==
  /\ pc[t] = "args"
  /\ ran' = [ran EXCEPT ![t] = Append(@, "args")]
  /\ Continue(t, check_args(args[t].null), "decode")
  /\ UNCHANGED << initialized, init_ret, args, output, output_len, locals, calls_left,
                  entry, sealed, prev >>

Decode(t) ==
  /\ pc[t] = "decode"
  /\ ran' = [ran EXCEPT ![t] = Append(@, "decode")]
  /\ LET r == decode_stage(args[t].public_key_b64)
     IN  /\ locals' = [locals EXCEPT ![frame(t)].public_key = r.public_key,
                                     ![frame(t)].decoded_len = r.decoded_len]
         /\ Continue(t, r.ret, "seal")
  /\ UNCHANGED << initialized, init_ret, args, output, output_len, calls_left, entry,
                  sealed, prev >>

Seal(t) ==
  /\ pc[t] = "seal"
  /\ ran' = [ran EXCEPT ![t] = Append(@, "seal")]
  /\ \E esk \in EphemeralSecrets :
       LET r == seal_stage(args[t].plaintext, locals[frame(t)].public_key, esk)
       IN  /\ sealed' = [sealed EXCEPT ![t] =
                           [ran |-> TRUE, key |-> locals[frame(t)].public_key,
                            m |-> r.m, c |-> r.ciphertext, ret |-> r.sealret]]
           /\ locals' = [locals EXCEPT ![frame(t)].ciphertext = r.ciphertext]
           /\ Continue(t, r.ret, "encode")
  /\ UNCHANGED << initialized, init_ret, args, output, output_len, calls_left, entry, prev >>

Encode(t) ==
  /\ pc[t] = "encode"
  /\ ran' = [ran EXCEPT ![t] = Append(@, "encode")]
  /\ LET r == encode_stage(output[t], output_len[t], locals[frame(t)].ciphertext)
     IN  /\ locals' = [locals EXCEPT ![frame(t)].b64_len =
                         sodium_base64_ENCODED_LEN(Len(locals[frame(t)].ciphertext))]
         /\ output' = [output EXCEPT ![t] = r.output]
         /\ output_len' = [output_len EXCEPT ![t] = r.output_len]
         /\ IF r.aborted
            THEN pc' = [p \in Threads |-> "aborted"] /\ UNCHANGED ret
            ELSE pc' = [pc EXCEPT ![t] = "returned"] /\ ret' = [ret EXCEPT ![t] = r.ret]
  /\ UNCHANGED << initialized, init_ret, args, calls_left, entry, sealed, prev >>

(***************************************************************************)
(* Specifications.  Spec: one caller, every combination of inputs.         *)
(* ConcSpec: every thread calls once, with one of a few inputs.      *)
(***************************************************************************)
Inputs ==
  { [public_key_b64 |-> k, plaintext |-> p, null |-> n] :
      k \in KeyTexts, p \in Plaintexts, n \in NullChoices }

InitCommon ==
  /\ initialized = FALSE
  /\ init_ret = NoRet
  /\ output = [t \in Threads |-> FreshBuffer]
  /\ pc = [t \in Threads |-> "idle"]
  /\ ret = [t \in Threads |-> NoRet]
  /\ locals = [t \in Threads |-> NoLocals]
  /\ entry = [t \in Threads |-> [len |-> 0, out |-> FreshBuffer]]
  /\ ran = [t \in Threads |-> << >>]
  /\ sealed = [t \in Threads |-> NotSealed]
  /\ prev = [t \in Threads |-> NoCall]

Init ==
  /\ InitCommon
  /\ \E a \in Inputs : args = [t \in Threads |-> IF t = 1 THEN a ELSE NotCalling]
  /\ \E cap \in Capacities : output_len = [t \in Threads |-> IF t = 1 THEN cap ELSE 0]
  /\ calls_left = [t \in Threads |-> IF t = 1 THEN MaxCalls ELSE 0]

Next ==
  \/ crypto_init
  \/ \E t \in Threads : Call(t)
  \/ \E t \in Threads : CheckArgs(t)
  \/ \E t \in Threads : Decode(t)
  \/ \E t \in Threads : Seal(t)
  \/ \E t \in Threads : Encode(t)

Spec == Init /\ [][Next]_vars

Case(k, p, cap) ==
  [a |-> [public_key_b64 |-> k, plaintext |-> p, null |-> {}], cap |-> cap]

ConcCases ==
  { Case(KeyText(3), << 104 >>, 0),
    Case(KeyText(3), << 104, 105, 33 >>, MaxRequired),
    Case(b64_text(ZeroKey), << 104 >>, MaxRequired),
    Case([KeyText(3) EXCEPT ![5] = "-"], << 104 >>, MaxRequired) }

ConcInit ==
  /\ InitCommon
  /\ \E c \in [Threads -> ConcCases] :
       /\ args = [t \in Threads |-> c[t].a]
       /\ output_len = [t \in Threads |-> c[t].cap]
  /\ calls_left = [t \in Threads |-> 1]

ConcSpec == ConcInit /\ [][Next]_vars

(***************************************************************************)
(* Vocabulary of the properties.                                           *)
(***************************************************************************)
Returned(t) == pc[t] = "returned"

StageOrder == << "args", "decode", "seal", "encode" >>

HasBadChar(k) == \E i \in 1..Len(k) : k[i] # "=" /\ b64_char_to_byte(k[i]) = 255

\* '=' at the end of k
PadCount(k) ==
  IF Len(k) >= 2 /\ k[Len(k)] = "=" /\ k[Len(k) - 1] = "=" THEN 2
  ELSE IF Len(k) >= 1 /\ k[Len(k)] = "=" THEN 1
  ELSE 0

\* k is padded base64: groups of four digits, '=' only at the end
WellFormed(k) ==
  /\ Len(k) % 4 = 0
  /\ \A i \in 1..(Len(k) - PadCount(k)) : b64_char_to_byte(k[i]) # 255

\* bytes that a well-formed text stands for
TextBytes(k) == (Len(k) \div 4) * 3 - PadCount(k)

WrongLength(k) == WellFormed(k) /\ TextBytes(k) # crypto_box_PUBLICKEYBYTES

\* the secret scalars whose public key k encodes
OwnersOf(k) == { sk \in RecipientSecrets : k = KeyText(sk) }

\* characters of the padded base64 text of n bytes
TextLen(n) == 4 * ((n + 2) \div 3)

\* the text in a buffer, as the caller reads it
TextOf(buf) == SubSeq(buf, 1, strlen(buf))

\* C1 (key validation): a key text that decodes to fewer or more bytes than
\* crypto_box_PUBLICKEYBYTES, or that has a character outside the alphabet,
\* makes the call return -2, and crypto_box_seal is not run with it.
C1_KeyValidation ==
  \A t \in Threads :
    ( /\ Returned(t)
      /\ args[t].null = {}
      /\ (HasBadChar(args[t].public_key_b64) \/ WrongLength(args[t].public_key_b64)) )
    => (ret[t] = -2 /\ ~sealed[t].ran)

\* C2 (empty or missing argument): an empty plaintext, an empty key text or
\* a null argument makes the call return -1 before any stage after the
\* argument check has run.
C2_EmptyOrNullRejected ==
  \A t \in Threads :
    ( /\ Returned(t)
      /\ \/ args[t].null # {}
         \/ args[t].plaintext = << >>
         \/ args[t].public_key_b64 = << >> )
    => (ret[t] = -1 /\ ran[t] = << "args" >>)

\* the code of the first stage that fails for the inputs of the current call
\* of t, 0 when none does
FirstFailure(t) ==
  IF args[t].null # {} THEN -1
  ELSE LET d == sodium_base642bin(ZeroKey, crypto_box_PUBLICKEYBYTES, args[t].public_key_b64)
       IN  IF d.ret # 0 THEN -2
           ELSE IF \A e \in EphemeralSecrets :
                     crypto_box_seal(args[t].plaintext, d.bin, e).ret # 0 THEN -3
           ELSE IF TextLen(crypto_box_SEALBYTES + Len(args[t].plaintext)) + 1 > entry[t].len
                THEN -4
           ELSE 0

StagesFor(r) == IF r = -1 THEN 1 ELSE IF r = -2 THEN 2 ELSE IF r = -3 THEN 3 ELSE 4

\* C3 (stage order): the stages run in the order argument check, decode,
\* seal, encode; a call returns the code of the first stage that fails, no
\* stage runs after it, and 0 is returned only when all four stages ran and
\* none failed.
C3_StageOrder ==
  \A t \in Threads :
    /\ Len(ran[t]) <= 4
    /\ ran[t] = SubSeq(StageOrder, 1, Len(ran[t]))
    /\ sealed[t].ran <=> Len(ran[t]) >= 3
    /\ Returned(t) =>
         /\ ret[t] \in {-5, -4, -3, -2, -1, 0}
         /\ ret[t] = FirstFailure(t)
         /\ Len(ran[t]) = StagesFor(ret[t])

C3_Witness ==
  \E t \in Threads :
    /\ Returned(t)
    /\ args[t].null = {}
    /\ HasBadChar(args[t].public_key_b64)
    /\ entry[t].len = 0
    /\ ret[t] = -2

\* key texts of keys that have a recipient
GoodKeyTexts == ValidKeyTexts \cup {ScenarioKey}

\* the least capacity that holds the text for plaintext p and its terminator
Required(p) == TextLen(crypto_box_SEALBYTES + Len(p)) + 1

\* C4 (buffer negotiation): with a valid key, a call with *output_len = 0
\* returns -4 and leaves the exact required length in *output_len; the next
\* call with the same arguments and that length returns 0; no smaller
\* capacity is accepted.
C4_BufferNegotiation ==
  \A t \in Threads :
    (Returned(t) /\ args[t].null = {}) =>
      /\ (entry[t].len = 0 /\ args[t].public_key_b64 \in GoodKeyTexts) =>
           (ret[t] = -4 /\ output_len[t] = Required(args[t].plaintext))
      /\ (prev[t].ret = -4 /\ prev[t].entry_len = 0) =>
           (entry[t].len = Required(args[t].plaintext) /\ ret[t] = 0)
      /\ ret[t] = 0 => entry[t].len >= Required(args[t].plaintext)

C4_Witness ==
  \E t \in Threads :
    /\ Returned(t)
    /\ prev[t].ret = -4
    /\ prev[t].entry_len = 0
    /\ ret[t] = 0

\* C5 (no partial output): when a call returns -1, -2, -3, -4 or -5 the
\* buffer is as it was when the call began; on -4 only the length cell has
\* changed, to the required length; on -1, -2, -3 the length cell is as it was.
C5_FailureLeavesBuffer ==
  \A t \in Threads :
    (Returned(t) /\ ret[t] \in {-5, -4, -3, -2, -1}) =>
      /\ output[t] = entry[t].out
      /\ ret[t] = -4 =>
           (output_len[t] = Required(args[t].plaintext) /\ output_len[t] > entry[t].len)
      /\ ret[t] \in {-3, -2, -1} => output_len[t] = entry[t].len

C5_Witness ==
  \E t \in Threads :
    /\ Returned(t)
    /\ ret[t] = -4
    /\ prev[t].ret = 0
    /\ TextOf(output[t]) # << >>
    /\ output[t] = entry[t].out

\* C6 (capacity respected): no cell of the buffer at or beyond the capacity
\* that *output_len held when the call began is ever changed, and on
\* return 0 *output_len is the length of the text in the buffer, which is
\* the encoded ciphertext and is not longer than that capacity.
C6_WithinCapacity ==
  \A t \in Threads :
    /\ \A i \in 1..BufSize : i > entry[t].len => output[t][i] = entry[t].out[i]
    /\ (Returned(t) /\ ret[t] = 0) =>
         /\ output_len[t] <= entry[t].len
         /\ output_len[t] = Len(b64_text(sealed[t].c))
         /\ TextOf(output[t]) = b64_text(sealed[t].c)

C6_Witness ==
  \E t \in Threads :
    /\ Returned(t)
    /\ ret[t] = 0
    /\ output_len[t] + 1 < entry[t].len
    /\ output[t][entry[t].len] = NUL
    /\ output[t][entry[t].len + 1] = Untouched

\* what the recipient with secret sk reads from the text in buf
Opened(buf, sk) ==
  LET text == TextOf(buf)
      dec  == sodium_base642bin([i \in 1..Len(text) |-> 0], Len(text), text)
  IN  IF dec.ret # 0 THEN [ret |-> -1, m |-> << >>]
      ELSE crypto_box_seal_open(SubSeq(dec.bin, 1, dec.bin_len), sk)

\* C7 (round trip): when a call with the key text of a recipient returns 0,
\* the recipient decodes the text in the buffer and opens it to exactly the
\* plaintext, and the key given to crypto_box_seal was the recipient's
\* public key.
C7_RoundTrip ==
  \A t \in Threads :
    (Returned(t) /\ ret[t] = 0) =>
      \A sk \in OwnersOf(args[t].public_key_b64) :
        /\ Opened(output[t], sk) = [ret |-> 0, m |-> args[t].plaintext]
        /\ sealed[t].key = crypto_scalarmult_base(sk)

C7_Witness ==
  \E t \in Threads :
    /\ Returned(t)
    /\ ret[t] = 0
    /\ OwnersOf(args[t].public_key_b64) # {}
    /\ Len(args[t].plaintext) = MaxPlainLen

\* C8 (length): the ciphertext that crypto_box_seal makes has the length of
\* the plaintext plus crypto_box_SEALBYTES, and on return 0 *output_len is
\* 4 * ceil((length of the plaintext + crypto_box_SEALBYTES) / 3), whatever
\* the capacity was.
C8_Lengths ==
  \A t \in Threads :
    /\ (sealed[t].ran /\ sealed[t].ret = 0) =>
         Len(sealed[t].c) = Len(args[t].plaintext) + crypto_box_SEALBYTES
    /\ (Returned(t) /\ ret[t] = 0) =>
         output_len[t] = TextLen(Len(args[t].plaintext) + crypto_box_SEALBYTES)

C8_Witness ==
  \E t \in Threads :
    /\ Returned(t)
    /\ ret[t] = 0
    /\ Len(args[t].plaintext) % 3 = 2
    /\ entry[t].len > Required(args[t].plaintext)

\* C10 (terminator counted): the length reported with -4 is one more than
\* the length reported with 0 for the same arguments, so a call whose
\* capacity is the text length, and the call after a return of 0 with the
\* same length cell, return -4.
C10_TerminatorCounted ==
  \A t \in Threads :
    Returned(t) =>
      /\ prev[t].ret = 0 => (ret[t] = -4 /\ output_len[t] = prev[t].exit_len + 1)
      /\ (prev[t].ret = -4 /\ ret[t] = 0) => output_len[t] + 1 = prev[t].exit_len
      /\ ( /\ args[t].null = {}
           /\ args[t].public_key_b64 \in GoodKeyTexts
           /\ entry[t].len = TextLen(crypto_box_SEALBYTES + Len(args[t].plaintext)) )
         => ret[t] = -4

C10_Witness ==
  \E t \in Threads :
    /\ Returned(t)
    /\ prev[t].ret = 0
    /\ ret[t] = -4
    /\ output_len[t] = prev[t].exit_len + 1

\* return code and length cell of the call of t when it runs alone
AloneResults(t) ==
  { LET a == check_args(args[t].null)
        d == decode_stage(args[t].public_key_b64)
        s == seal_stage(args[t].plaintext, d.public_key, e)
        n == encode_stage(entry[t].out, entry[t].len, s.ciphertext)
    IN  IF a # 0 THEN [ret |-> a, output_len |-> entry[t].len]
        ELSE IF d.ret # 0 THEN [ret |-> d.ret, output_len |-> entry[t].len]
        ELSE IF s.ret # 0 THEN [ret |-> s.ret, output_len |-> entry[t].len]
        ELSE [ret |-> n.ret, output_len |-> n.output_len]
    : e \in EphemeralSecrets }

\* C9 (concurrent calls): with calls of several threads interleaved in any
\* way, each call returns the code and leaves the length that it does when
\* it runs alone; the key it seals with, the message it seals, the ciphertext
\* it encodes, its buffer and its length cell are its own.
C9_NoInterference ==
  \A t \in Threads :
    /\ Returned(t) =>
         /\ [ret |-> ret[t], output_len |-> output_len[t]] \in AloneResults(t)
         /\ ret[t] = 0 => TextOf(output[t]) = b64_text(sealed[t].c)
         /\ ret[t] # 0 => output[t] = entry[t].out
    /\ pc[t] = "idle" => output[t] = FreshBuffer
    /\ pc[t] \in {"args", "decode", "seal", "encode"} =>
         (output[t] = entry[t].out /\ output_len[t] = entry[t].len)
    /\ (pc[t] \in {"seal", "encode"} \/ sealed[t].ran) =>
         LET own == decode_stage(args[t].public_key_b64).public_key
         IN  /\ pc[t] \in {"seal", "encode"} => locals[frame(t)].public_key = own
             /\ sealed[t].ran => (sealed[t].key = own /\ sealed[t].m = args[t].plaintext)
    /\ pc[t] = "encode" => locals[frame(t)].ciphertext = sealed[t].c

C9_Witness ==
  \E t, u \in Threads :
    /\ t # u
    /\ pc[t] = "encode"
    /\ pc[u] = "encode"
    /\ args[t].plaintext # args[u].plaintext

====
